---- MODULE Spec2Model ----
(***************************************************************************)
(* The /stream endpoint of supysonic (supysonic/api/media.py): format and  *)
(* bitrate negotiation, the transcode cache lookup, the choice and start   *)
(* of the external processes, and the generator handle_transcoding that    *)
(* turns the processes' output into a cancellable sequence of chunks.      *)
(*                                                                         *)
(* Conventions.  A Python string is a TLA+ string; the text produced by a  *)
(* format or a str() call is a sequence of such strings (Str, cache_key).  *)
(* An absent request value (None) is the string "None"; an absent integer  *)
(* is NoInt.  Requests are numbered in their order of arrival.             *)
(***************************************************************************)
EXTENDS Integers, Sequences, FiniteSets, TLC

VARIABLES
    scn,      \* which workload this run serves: "single" or "concurrent"
    config,   \* current_app.config["TRANSCODING"]
    track,    \* the Track row the requests are about (get_entity(Track))
    user,     \* request.user: last_play, last_play_date
    clock,    \* the time now() returns
    cache,    \* current_app.transcode_cache: artifacts and productions in flight
    procs,    \* every process started with subprocess.Popen, by pid
    req       \* the local state of each request of stream_media

vars == <<scn, config, track, user, clock, cache, procs, req>>

(***************************************************************************)
(* Bounds of the model.                                                    *)
(***************************************************************************)
NReq == 2          \* requests of the concurrent workload
MaxChunks == 2     \* full reads a process's output can fill
MaxDuration == 1   \* longest track, in seconds

Requests == 1..NReq
NoInt == -1

(***************************************************************************)
(* Program constants.                                                      *)
(***************************************************************************)
READ_SIZE == 8192            \* proc.stdout.read(8192)
THRESHOLD_PCT == 95          \* sent >= estimate * 0.95

(***************************************************************************)
(* The values the workload draws from.                                     *)
(***************************************************************************)
Suffixes == {"mp3", "ogg"}
SrcBitrates == {128}
OtherBitrates == {64, 192}

(***************************************************************************)
(* str(n) for a natural number: its decimal digits.                        *)
(***************************************************************************)
DigitChar(d) == <<"0", "1", "2", "3", "4", "5", "6", "7", "8", "9">>[d + 1]

RECURSIVE Str(_)
Str(n) == IF n < 10 THEN <<DigitChar(n)>>
          ELSE Str(n \div 10) \o <<DigitChar(n % 10)>>

(***************************************************************************)
(* request_format.lower(), on the formats of the workload.                 *)
(***************************************************************************)
lower(s) == CASE s = "OGG" -> "ogg"
              [] s = "MP3" -> "mp3"
              [] s = "RAW" -> "raw"
              [] OTHER -> s

(***************************************************************************)
(* int(maxBitRate): the value of a string of decimal digits.               *)
(***************************************************************************)
DigitVal(c) == CHOOSE d \in 0..9 : DigitChar(d) = c

RECURSIVE int(_)
int(s) == IF Len(s) = 0 THEN 0
          ELSE 10 * int(SubSeq(s, 1, Len(s) - 1)) + DigitVal(s[Len(s)])

(***************************************************************************)
(* mimetypes.guess_type("dummyname." + suffix, False)[0]                   *)
(***************************************************************************)
guess_type(suffix) == CASE suffix = "mp3" -> "audio/mpeg"
                        [] suffix = "ogg" -> "audio/ogg"
                        [] OTHER -> "None"

(***************************************************************************)
(* config.get(key): a key is the tuple of the words its name joins with    *)
(* "_" (transcoder_mp3_ogg is <<"transcoder", "mp3", "ogg">>); no suffix   *)
(* of the workload holds a "_", so the tuple and the name determine each   *)
(* other.  A command template is the sequence of the words shlex.split     *)
(* gives; an absent or empty template is the empty sequence, which is what *)
(* "not base_cmdline" tests.                                               *)
(***************************************************************************)
NoTemplate == <<>>

config_get(cfg, key) == IF key \in DOMAIN cfg.commands THEN cfg.commands[key]
                        ELSE NoTemplate

(***************************************************************************)
(* The Track row: res.suffix(), res.bitrate, res.duration, res.path and    *)
(* the tags the command templates may name.                                *)
(***************************************************************************)
path(res) == <<"/music/">> \o Str(res.id) \o <<".", res.suffix>>

(***************************************************************************)
(* prepare_transcoding_cmdline: every word of the template with its        *)
(* placeholders replaced; a word is a literal or one placeholder.          *)
(***************************************************************************)
render(part, res, input_format, output_format, output_bitrate) ==
    CASE part = "%srcpath" -> path(res)
      [] part = "%srcfmt" -> <<input_format>>
      [] part = "%outfmt" -> <<output_format>>
      [] part = "%outrate" -> Str(output_bitrate)
      [] part = "%title" -> <<res.title>>
      [] part = "%album" -> <<res.album>>
      [] part = "%artist" -> <<res.artist>>
      [] part = "%tracknumber" -> Str(res.number)
      [] part = "%totaltracks" -> Str(res.totaltracks)
      [] part = "%discnumber" -> Str(res.disc)
      [] part = "%genre" -> IF res.genre /= "None" THEN <<res.genre>> ELSE <<"">>
      [] part = "%year" -> IF res.year /= 0 THEN Str(res.year) ELSE <<"">>
      [] OTHER -> <<part>>

prepare_transcoding_cmdline(base_cmdline, res, input_format, output_format, output_bitrate) ==
    IF Len(base_cmdline) = 0 THEN NoTemplate
    ELSE [i \in 1..Len(base_cmdline) |->
             render(base_cmdline[i], res, input_format, output_format,
                    output_bitrate)]

(***************************************************************************)
(* Lines 78-107: the negotiation of the target suffix and bitrate.  p is   *)
(* the request: its values and the preferences of request.client.          *)
(***************************************************************************)
request_format(p) == IF p.format /= "None" /\ p.format /= ""
                     THEN lower(p.format) ELSE p.format

has_format(p) == request_format(p) /= "None" /\ request_format(p) /= ""

using_default_format_without_format(p) == ~has_format(p)

using_default_format(p) == ~has_format(p) /\ p.prefFormat = "None"

suffix_choice(p, src_suffix) ==
    IF has_format(p)
    THEN (IF request_format(p) = "raw" THEN src_suffix ELSE request_format(p))
    ELSE IF p.prefFormat /= "None" THEN p.prefFormat
    ELSE src_suffix

pref_bitrate(p, bitrate) ==
    IF p.prefBitrate /= 0 /\ p.prefBitrate < bitrate THEN p.prefBitrate
    ELSE bitrate

max_applies_any_value(p, dst_bitrate) ==
    /\ Len(p.maxBitRate) > 0
    /\ dst_bitrate > int(p.maxBitRate)

max_applies(p, dst_bitrate) ==
    /\ Len(p.maxBitRate) > 0
    /\ dst_bitrate > int(p.maxBitRate)
    /\ int(p.maxBitRate) /= 0

negotiate(p, res, cfg) ==
    LET src_suffix == res.suffix
        suffix1 == suffix_choice(p, src_suffix)
        bitrate1 == pref_bitrate(p, res.bitrate)
        capped == max_applies(p, bitrate1)
        dst_bitrate == IF capped THEN int(p.maxBitRate) ELSE bitrate1
        dst_suffix == IF capped /\ using_default_format(p)
                         /\ cfg.default_transcode_target /= "None"
                      THEN cfg.default_transcode_target
                      ELSE suffix1
        guessed == guess_type(dst_suffix)
    IN  [src_suffix |-> src_suffix,
         dst_suffix |-> dst_suffix,
         dst_bitrate |-> dst_bitrate,
         dst_mimetype |-> IF dst_suffix /= src_suffix
                          THEN (IF guessed /= "None" THEN guessed
                                ELSE "application/octet-stream")
                          ELSE res.mimetype]

(***************************************************************************)
(* Lines 70-73: the parameter UnsupportedParameter names, or "None".       *)
(***************************************************************************)
unsupported_timeOffset_only(p) == IF p.timeOffset THEN "timeOffset" ELSE "None"

unsupported(p) == IF p.timeOffset THEN "timeOffset"
                  ELSE IF p.size THEN "size"
                  ELSE "None"

(***************************************************************************)
(* Line 116: whether the request needs transcoding.                        *)
(***************************************************************************)
requires_transcode_mimetype(n, res) ==
    n.dst_suffix /= res.mimetype \/ n.dst_bitrate /= res.bitrate

requires_transcode(n, res) ==
    n.dst_suffix /= n.src_suffix \/ n.dst_bitrate /= res.bitrate

(***************************************************************************)
(* Line 119: "{}-{}.{}".format(res.id, dst_bitrate, dst_suffix), as the    *)
(* sequence of its characters.                                             *)
(***************************************************************************)
chars(suffix) == CASE suffix = "mp3" -> <<"m", "p", "3">>
                   [] suffix = "ogg" -> <<"o", "g", "g">>
                   [] suffix = "4.ogg" -> <<"4", ".", "o", "g", "g">>
                   [] OTHER -> <<suffix>>

cache_key_unseparated(id, dst_bitrate, dst_suffix) ==
    Str(id) \o Str(dst_bitrate) \o <<".">> \o chars(dst_suffix)

cache_key(id, dst_bitrate, dst_suffix) ==
    Str(id) \o <<"-">> \o Str(dst_bitrate) \o <<".">> \o chars(dst_suffix)

(***************************************************************************)
(* Lines 126-131: the commands the configuration resolves for the pair     *)
(* (src_suffix, dst_suffix).  failed is the case that raises GenericError. *)
(***************************************************************************)
or_else(a, b) == IF Len(a) > 0 THEN a ELSE b

resolve_generic_first(cfg, src_suffix, dst_suffix) ==
    LET transcoder == or_else(config_get(cfg, <<"transcoder", src_suffix, dst_suffix>>),
                              config_get(cfg, <<"transcoder">>))
        decoder == or_else(config_get(cfg, <<"decoder", src_suffix>>),
                           config_get(cfg, <<"decoder">>))
        encoder == or_else(config_get(cfg, <<"encoder", dst_suffix>>),
                           config_get(cfg, <<"encoder">>))
    IN  [transcoder |-> transcoder, decoder |-> decoder, encoder |-> encoder,
         failed |-> Len(transcoder) = 0 /\ (Len(decoder) = 0 \/ Len(encoder) = 0)]

resolve(cfg, src_suffix, dst_suffix) ==
    LET transcoder == config_get(cfg, <<"transcoder", src_suffix, dst_suffix>>)
        decoder == or_else(config_get(cfg, <<"decoder", src_suffix>>),
                           config_get(cfg, <<"decoder">>))
        encoder == or_else(config_get(cfg, <<"encoder", dst_suffix>>),
                           config_get(cfg, <<"encoder">>))
        fallback == Len(transcoder) = 0 /\ (Len(decoder) = 0 \/ Len(encoder) = 0)
        chosen == IF fallback THEN config_get(cfg, <<"transcoder">>)
                  ELSE transcoder
    IN  [transcoder |-> chosen, decoder |-> decoder, encoder |-> encoder,
         failed |-> fallback /\ Len(chosen) = 0]

(***************************************************************************)
(* Line 155: estimate = dst_bitrate * 1000 * res.duration // 8, or None.   *)
(***************************************************************************)
estimate_of_any_value(estimateContentLength, dst_bitrate, duration) ==
    IF estimateContentLength /= "None"
    THEN (dst_bitrate * 1000 * duration) \div 8
    ELSE NoInt

estimate_of(estimateContentLength, dst_bitrate, duration) ==
    IF estimateContentLength = "true"
    THEN (dst_bitrate * 1000 * duration) \div 8
    ELSE NoInt

(***************************************************************************)
(* Line 187: "estimate and sent >= estimate * 0.95".  The product with the *)
(* float 0.95 is the exact value whenever that value is an integer (the    *)
(* error of 0.95 is below half a unit in the last place of the product),   *)
(* so the comparison with the integer sent is the one on integers.         *)
(***************************************************************************)
close_to_end_strict(estimate, sent) ==
    /\ estimate /= NoInt
    /\ estimate /= 0
    /\ sent * 100 > estimate * THRESHOLD_PCT

close_to_end(estimate, sent) ==
    /\ estimate /= NoInt
    /\ estimate /= 0
    /\ sent * 100 >= estimate * THRESHOLD_PCT

(***************************************************************************)
(* The calls made on the processes, in the order the code makes them.      *)
(* dec_proc = 0 is "dec_proc is None".                                     *)
(***************************************************************************)
call(op, pid) == [op |-> op, pid |-> pid]

kill_processes_main_first(dec_proc, proc) ==
    <<call("kill", proc)>>
        \o (IF dec_proc /= 0 THEN <<call("kill", dec_proc)>> ELSE <<>>)

\* lines 166-169
kill_processes(dec_proc, proc) ==
    (IF dec_proc /= 0 THEN <<call("kill", dec_proc)>> ELSE <<>>)
        \o <<call("kill", proc)>>

finally_block_main_only(dec_proc, proc) ==
    <<call("close", proc), call("wait", proc)>>

\* lines 192-197
finally_block(dec_proc, proc) ==
    (IF dec_proc /= 0
     THEN <<call("close", dec_proc), call("wait", dec_proc)>> ELSE <<>>)
        \o <<call("close", proc), call("wait", proc)>>

\* the error leaves the generator
raise == <<call("raise", 0)>>

apply_call(ps, c) ==
    CASE c.op = "kill" -> [ps EXCEPT ![c.pid].kills = @ + 1]
      [] c.op = "close" -> [ps EXCEPT ![c.pid].stdout_open = FALSE]
      [] c.op = "wait" -> [ps EXCEPT ![c.pid].waits = @ + 1]
      [] OTHER -> ps

RECURSIVE apply_calls(_, _)
apply_calls(ps, cs) ==
    IF Len(cs) = 0 THEN ps
    ELSE apply_calls(apply_call(ps, Head(cs)), Tail(cs))

(***************************************************************************)
(* subprocess.Popen(argv, stdin=..., stdout=subprocess.PIPE)               *)
(***************************************************************************)
Popen(r, role, argv, stdin) ==
    [owner |-> r, role |-> role, argv |-> argv, stdin |-> stdin,
     kills |-> 0, stdout_open |-> TRUE, waits |-> 0,
     read |-> 0, at_eof |-> FALSE]

(***************************************************************************)
(* The transcode cache (supysonic/cache.py), from its contract:            *)
(* get(key) gives the artifact or signals CacheMiss; set_generated(key,    *)
(* factory) registers a production for key unless one is in flight, in     *)
(* which case the caller is attached to that one and its factory is not    *)
(* invoked; the artifact is visible once its production completed.         *)
(***************************************************************************)
cache_get(c, key) == key \in c.artifacts

in_flight(c, key) == \E e \in c.producing : e.key = key

cache_register(c, key, r) ==
    IF in_flight(c, key) THEN c
    ELSE [c EXCEPT !.producing = @ \cup {[key |-> key, owner |-> r]}]

cache_complete(c, key, r) ==
    [artifacts |-> c.artifacts \cup {key},
     producing |-> c.producing \ {[key |-> key, owner |-> r]}]

cache_drop(c, key, r) ==
    [c EXCEPT !.producing = @ \ {[key |-> key, owner |-> r]}]

(***************************************************************************)
(* Lines 121-125: the cached artifact is served when cache.get finds one.  *)
(***************************************************************************)
serve_cached_never(c, key) == FALSE

serve_cached(c, key) == cache_get(c, key)

(***************************************************************************)
(* The workloads.  "single": one request, every configuration, track and   *)
(* request of the bounded sets, the cache empty or holding the artifact of *)
(* an earlier production.  "concurrent": NReq requests of one client for   *)
(* the same track, as ogg at 64 kbps or raw, under no command, a generic   *)
(* transcoder, or a generic decoder and encoder, the processes writing     *)
(* less than one full read.  "negotiation": one request over every         *)
(* combination of format, maxBitRate and client preferences, for tracks of *)
(* two ids, under a generic transcoder or a generic decoder and encoder.   *)
(***************************************************************************)
CommandKeys == {<<"transcoder", "mp3", "ogg">>, <<"decoder", "mp3">>,
                <<"encoder", "ogg">>, <<"decoder">>, <<"encoder">>,
                <<"transcoder">>}

GenericKeys == {<<"decoder">>, <<"encoder">>, <<"transcoder">>}

ConcurrentCommands == {{}, {<<"transcoder">>}, {<<"decoder">>, <<"encoder">>}}

NegotiationCommands == {{<<"transcoder">>}, {<<"decoder">>, <<"encoder">>}}

Template(key) ==
    CASE key = <<"transcoder", "mp3", "ogg">> -> <<"mp3toogg", "%srcpath", "%outrate">>
      [] key = <<"decoder", "mp3">> -> <<"mp3dec", "%srcpath">>
      [] key = <<"encoder", "ogg">> -> <<"oggenc", "%outrate", "%title">>
      [] key = <<"decoder">> -> <<"dec", "%srcfmt", "%srcpath">>
      [] key = <<"encoder">> -> <<"enc", "%outfmt", "%outrate">>
      [] OTHER -> <<"transcode", "%srcpath", "%outfmt", "%outrate">>

ConfigsOver(keys, targets) ==
    {[commands |-> [k \in K |-> Template(k)], default_transcode_target |-> d] :
        K \in SUBSET keys, d \in targets}

Configs(s) ==
    CASE s = "single" -> ConfigsOver(CommandKeys, {"None", "ogg"})
      [] s = "concurrent" -> {c \in ConfigsOver(GenericKeys, {"None"}) :
                                 DOMAIN c.commands \in ConcurrentCommands}
      [] OTHER -> {c \in ConfigsOver(GenericKeys, {"None", "ogg"}) :
                      DOMAIN c.commands \in NegotiationCommands}

TrackIds == {1, 16}
NegotiationBitrates == {192, 320}

TrackRow(id, suffix, bitrate, duration) ==
    [id |-> id, suffix |-> suffix, bitrate |-> bitrate, duration |-> duration,
     mimetype |-> guess_type(suffix), title |-> "Title", album |-> "Album",
     artist |-> "Artist", number |-> 3, totaltracks |-> 12, disc |-> 1,
     genre |-> "None", year |-> 1999, play_count |-> 0, last_play |-> 0]

Tracks(s) ==
    CASE s = "single" ->
            {TrackRow(1, x, b, d) :
                x \in Suffixes, b \in SrcBitrates, d \in 0..MaxDuration}
      [] s = "concurrent" -> {TrackRow(1, "mp3", b, 1) : b \in SrcBitrates}
      [] OTHER -> {TrackRow(i, x, b, 1) :
                      i \in TrackIds, x \in Suffixes, b \in NegotiationBitrates}

Params(flags, maxBitRates, formats, estimates, prefFormats, prefBitrates) ==
    [timeOffset : flags, size : flags, maxBitRate : maxBitRates,
     format : formats, estimateContentLength : estimates,
     prefFormat : prefFormats, prefBitrate : prefBitrates]

Workload(s) ==
    CASE s = "single" ->
            Params({FALSE}, {<<>>, Str(0)} \cup {Str(b) : b \in OtherBitrates},
                   {"None", "raw", "MP3", "ogg"}, {"None", "true", "false"},
                   {"None"} \cup Suffixes, {0} \cup OtherBitrates)
            \cup Params({FALSE}, {<<>>, Str(64)}, {"ogg"}, {"True"},
                        {"None"}, {0})
            \cup {p \in Params(BOOLEAN, {<<>>}, {"None", "ogg"}, {"None"},
                               {"None"}, {0}) : p.timeOffset \/ p.size}
      [] s = "concurrent" ->
            Params({FALSE}, {Str(64)}, {"ogg"}, {"true"}, {"None"}, {0})
            \cup Params({FALSE}, {<<>>}, {"raw"}, {"true"}, {"None"}, {0})
      [] OTHER ->
            Params({FALSE},
                   {<<>>, Str(0), Str(64), Str(128)}
                       \cup {Str(b) : b \in NegotiationBitrates},
                   {"None", "", "RAW", "ogg"}, {"true"}, {"None", "mp3"},
                   {0, 128} \cup NegotiationBitrates)

MaxReq(s) == IF s = "concurrent" THEN NReq ELSE 1

FullReads(s) == IF s = "single" THEN MaxChunks ELSE 0

\* the artifacts the cache holds when the server takes its first request
Caches(s, res) ==
    IF s = "single"
    THEN {[artifacts |-> a, producing |-> {}] :
            a \in {{}, {cache_key(res.id, 64, "ogg")}}}
    ELSE {[artifacts |-> {}, producing |-> {}]}

\* the request as the client sent it, kept for the negotiation workload
NoParams ==
    [timeOffset |-> FALSE, size |-> FALSE, maxBitRate |-> <<>>,
     format |-> "None", estimateContentLength |-> "None",
     prefFormat |-> "None", prefBitrate |-> 0]

Sent(s, p) == IF s = "negotiation" THEN p ELSE NoParams

(***************************************************************************)
(* The locals of one request of stream_media and of its generator.         *)
(***************************************************************************)
NoNegotiation == [src_suffix |-> "None", dst_suffix |-> "None",
                  dst_bitrate |-> 0, dst_mimetype |-> "None"]

IdleRequest ==
    [pc |-> "idle", p |-> NoParams, timeOffset |-> FALSE, size |-> FALSE,
     n |-> NoNegotiation, outcome |-> "None", message |-> <<>>,
     key |-> <<>>, transcoder |-> <<>>, decoder |-> <<>>, encoder |-> <<>>,
     estimateContentLength |-> "None",
     dec_proc |-> 0, proc |-> 0, estimate |-> NoInt,
     stream |-> "None", sent |-> 0, chunks |-> <<>>, cancelAt |-> NoInt,
     log |-> <<>>, cache_read |-> FALSE, cache_write |-> FALSE,
     served |-> <<>>, content_length |-> NoInt]

InitOf(s) ==
    /\ scn = s
    /\ config \in Configs(s)
    /\ track \in Tracks(s)
    /\ user = [last_play |-> 0, last_play_date |-> 0]
    /\ clock = 0
    /\ cache \in Caches(s, track)
    /\ procs = <<>>
    /\ req = [r \in Requests |-> IdleRequest]

Init == InitOf("single")

InitConcurrent == InitOf("concurrent")

InitNegotiation == InitOf("negotiation")

(***************************************************************************)
(* Lines 212-216: the playback bookkeeping.                                *)
(***************************************************************************)
Bookkeeping_track_only ==
    /\ clock' = clock + 1
    /\ track' = [track EXCEPT !.play_count = @ + 1, !.last_play = clock + 1]
    /\ user' = user

Bookkeeping ==
    /\ clock' = clock + 1
    /\ track' = [track EXCEPT !.play_count = @ + 1, !.last_play = clock + 1]
    /\ user' = [last_play |-> track.id, last_play_date |-> clock + 1]

(***************************************************************************)
(* stream_media up to the first Popen: lines 68-141, and for the requests  *)
(* that start no process the rest of the handler.                          *)
(***************************************************************************)
StreamRequest(r) ==
    /\ req[r].pc = "idle"
    /\ r <= MaxReq(scn)
    /\ IF r = 1 THEN TRUE ELSE req[r - 1].pc /= "idle"
    /\ \E p \in Workload(scn) :
        LET n == negotiate(p, track, config)
            key == cache_key(track.id, n.dst_bitrate, n.dst_suffix)
            sel == resolve(config, n.src_suffix, n.dst_suffix)
            cmd(x) == prepare_transcoding_cmdline(x, track, n.src_suffix,
                                                  n.dst_suffix, n.dst_bitrate)
            q == [req[r] EXCEPT !.p = Sent(scn, p),
                                !.timeOffset = p.timeOffset, !.size = p.size,
                                !.estimateContentLength = p.estimateContentLength]
        IN  IF unsupported(p) /= "None"
            THEN /\ req' = [req EXCEPT ![r] = [q EXCEPT
                        !.pc = "done", !.outcome = "UnsupportedParameter",
                        !.message = <<unsupported(p)>>]]
                 /\ UNCHANGED <<track, user, clock>>
            ELSE IF ~requires_transcode(n, track)
            THEN /\ req' = [req EXCEPT ![r] = [q EXCEPT
                        !.pc = "done", !.outcome = "file", !.n = n,
                        !.served = path(track)]]
                 /\ Bookkeeping
            ELSE IF serve_cached(cache, key)
            THEN /\ req' = [req EXCEPT ![r] = [q EXCEPT
                        !.pc = "done", !.outcome = "cached", !.n = n,
                        !.key = key, !.cache_read = TRUE, !.served = key]]
                 /\ Bookkeeping
            ELSE IF sel.failed
            THEN /\ req' = [req EXCEPT ![r] = [q EXCEPT
                        !.pc = "done", !.outcome = "GenericError", !.n = n,
                        !.key = key, !.cache_read = TRUE,
                        !.message = <<"No way to transcode from", n.src_suffix,
                                      "to", n.dst_suffix>>]]
                 /\ UNCHANGED <<track, user, clock>>
            ELSE /\ req' = [req EXCEPT ![r] = [q EXCEPT
                        !.pc = "popen", !.n = n, !.key = key,
                        !.cache_read = TRUE,
                        !.estimateContentLength = p.estimateContentLength,
                        !.transcoder = cmd(sel.transcoder),
                        !.decoder = cmd(sel.decoder),
                        !.encoder = cmd(sel.encoder)]]
                 /\ UNCHANGED <<track, user, clock>>
    /\ UNCHANGED <<scn, config, cache, procs>>

(***************************************************************************)
(* Lines 154-218, once the processes run: the estimate, the generator      *)
(* handed to cache.set_generated, the response and the bookkeeping.        *)
(***************************************************************************)
Respond(r, ps, dec_proc, proc) ==
    LET q == req[r]
        estimate == estimate_of(q.estimateContentLength, q.n.dst_bitrate,
                                track.duration)
    IN  /\ procs' = ps
        /\ req' = [req EXCEPT ![r] = [@ EXCEPT
                !.pc = "generator", !.outcome = "transcoding",
                !.dec_proc = dec_proc, !.proc = proc,
                !.estimate = estimate, !.content_length = estimate,
                !.stream = IF in_flight(cache, q.key) THEN "Attached"
                           ELSE "NotStarted",
                !.cache_write = TRUE, !.served = <<"generator">>]]
        /\ cache' = cache_register(cache, q.key, r)
        /\ Bookkeeping

\* lines 143-145
PopenTranscoder(r) ==
    /\ req[r].pc = "popen"
    /\ Len(req[r].transcoder) > 0
    /\ Respond(r, Append(procs, Popen(r, "transcoder", req[r].transcoder, 0)),
               0, Len(procs) + 1)
    /\ UNCHANGED <<scn, config>>

\* line 147
PopenDecoder(r) ==
    /\ req[r].pc = "popen"
    /\ Len(req[r].transcoder) = 0
    /\ procs' = Append(procs, Popen(r, "decoder", req[r].decoder, 0))
    /\ req' = [req EXCEPT ![r] = [@ EXCEPT !.pc = "popen_encoder",
                                             !.dec_proc = Len(procs) + 1]]
    /\ UNCHANGED <<scn, config, track, user, clock, cache>>

\* lines 148-150
PopenEncoder(r) ==
    /\ req[r].pc = "popen_encoder"
    /\ Respond(r, Append(procs, Popen(r, "encoder", req[r].encoder,
                                       req[r].dec_proc)),
               req[r].dec_proc, Len(procs) + 1)
    /\ UNCHANGED <<scn, config>>

\* lines 151-152: any of the three Popen calls raises OSError
PopenFails(r) ==
    /\ req[r].pc \in {"popen", "popen_encoder"}
    /\ req' = [req EXCEPT ![r] = [@ EXCEPT
            !.pc = "done", !.outcome = "ServerError",
            !.message = <<"Error while running the transcoding process">>]]
    /\ UNCHANGED <<scn, config, track, user, clock, cache, procs>>

(***************************************************************************)
(* proc.stdout.read(8192) on a pipe: 8192 bytes, or fewer when the end of  *)
(* the output is reached, and nothing ever after.                          *)
(***************************************************************************)
ShortReads == {READ_SIZE \div 2, 7600}

Reads(p) ==
    IF p.at_eof THEN {0}
    ELSE {0} \cup ShortReads
             \cup (IF p.read < FullReads(scn) * READ_SIZE THEN {READ_SIZE}
                   ELSE {})

read(ps, pid, n) ==
    [ps EXCEPT ![pid].read = @ + n, ![pid].at_eof = n < READ_SIZE]

\* lines 162-164: the reads transcode() yields; an empty read ends it
yielded_any(p) == Reads(p)

yielded(p) == Reads(p) \ {0}

(***************************************************************************)
(* handle_transcoding, lines 171-197.  The generator runs from one yield   *)
(* to the next or to its end; a request is "continuing" once its           *)
(* GeneratorExit was answered with "yield from transcode()".               *)
(***************************************************************************)
Running(r) ==
    /\ req[r].pc = "generator"
    /\ req[r].stream \in {"NotStarted", "Streaming"}

Continuing(r) == req[r].cancelAt /= NoInt

\* what an exception out of the read runs: lines 177-180 in the loop, and
\* only the finally block in the except GeneratorExit clause
on_exception(dec_proc, proc, continuing) ==
    IF continuing THEN finally_block(dec_proc, proc) \o raise
    ELSE kill_processes(dec_proc, proc) \o finally_block(dec_proc, proc) \o raise

\* lines 189-191, then the finally block
on_abort(dec_proc, proc) ==
    kill_processes(dec_proc, proc) \o finally_block(dec_proc, proc) \o raise

Finish(r, ps, calls, state) ==
    /\ procs' = apply_calls(ps, calls)
    /\ req' = [req EXCEPT ![r] = [@ EXCEPT
            !.stream = state, !.log = @ \o calls,
            !.cancelAt = IF state = "Aborted" THEN req[r].sent ELSE @]]
    /\ cache' = IF state = "Completed" THEN cache_complete(cache, req[r].key, r)
                 ELSE cache_drop(cache, req[r].key, r)

\* lines 161-164, 174-176 and 188: a chunk is read and yielded
NextChunk(r) ==
    /\ Running(r)
    /\ \E n \in yielded(procs[req[r].proc]) :
        /\ procs' = read(procs, req[r].proc, n)
        /\ req' = [req EXCEPT ![r] = [@ EXCEPT
                !.stream = "Streaming",
                !.sent = IF Continuing(r) THEN @ ELSE @ + n,
                !.chunks = Append(@, n)]]
    /\ UNCHANGED <<scn, config, track, user, clock, cache>>

\* lines 162-163 and 192-197: the read is empty, the generator ends
NextEnd(r) ==
    /\ Running(r)
    /\ Finish(r, read(procs, req[r].proc, 0),
              finally_block(req[r].dec_proc, req[r].proc), "Completed")
    /\ UNCHANGED <<scn, config, track, user, clock>>

\* the read raises
NextFails(r) ==
    /\ Running(r)
    /\ Finish(r, procs,
              on_exception(req[r].dec_proc, req[r].proc, Continuing(r)),
              "Failed")
    /\ UNCHANGED <<scn, config, track, user, clock>>

\* The consumer goes away while the generator waits at "yield data": one
\* GeneratorExit per stream (lines 181-191).
Suspended(r) ==
    /\ req[r].pc = "generator"
    /\ req[r].stream = "Streaming"
    /\ ~Continuing(r)

CancelIgnored(r) ==
    /\ Suspended(r)
    /\ close_to_end(req[r].estimate, req[r].sent)
    /\ req' = [req EXCEPT ![r].cancelAt = req[r].sent]
    /\ UNCHANGED <<scn, config, track, user, clock, cache, procs>>

CancelAborts(r) ==
    /\ Suspended(r)
    /\ ~close_to_end(req[r].estimate, req[r].sent)
    /\ Finish(r, procs, on_abort(req[r].dec_proc, req[r].proc), "Aborted")
    /\ UNCHANGED <<scn, config, track, user, clock>>

\* The consumer drops the response before asking for a chunk: closing a
\* generator that never ran runs none of its code.
Discard(r) ==
    /\ req[r].pc = "generator"
    /\ req[r].stream = "NotStarted"
    /\ req' = [req EXCEPT ![r].stream = "Discarded"]
    /\ cache' = cache_drop(cache, req[r].key, r)
    /\ UNCHANGED <<scn, config, track, user, clock, procs>>

Next ==
    \E r \in Requests :
        \/ StreamRequest(r)
        \/ PopenTranscoder(r)
        \/ PopenDecoder(r)
        \/ PopenEncoder(r)
        \/ PopenFails(r)
        \/ NextChunk(r)
        \/ NextEnd(r)
        \/ NextFails(r)
        \/ CancelIgnored(r)
        \/ CancelAborts(r)
        \/ Discard(r)

Spec == Init /\ [][Next]_vars

SpecConcurrent == InitConcurrent /\ [][Next]_vars

SpecNegotiation == InitNegotiation /\ [][Next]_vars

(***************************************************************************)
(* The concurrent workload under the server's scheduling: a handler that   *)
(* can take its next step takes it, and the consumer of a stream asks for  *)
(* the next chunk or closes the stream; nothing else is promised.          *)
(***************************************************************************)
Fairness == WF_vars(Next)

SpecConcurrentFair == InitConcurrent /\ [][Next]_vars /\ Fairness

(***************************************************************************)
(* Vocabulary of the properties.                                           *)
(***************************************************************************)
RECURSIVE Sum(_)
Sum(q) == IF Len(q) = 0 THEN 0 ELSE Head(q) + Sum(Tail(q))

\* the processes request r started
Own(r) == {pid \in 1..Len(procs) : procs[pid].owner = r}

\* the place of the first call c in the log of r, 0 when it has none
At(r, c) ==
    IF \E i \in 1..Len(req[r].log) : req[r].log[i] = c
    THEN CHOOSE i \in 1..Len(req[r].log) :
            /\ req[r].log[i] = c
            /\ \A j \in 1..(i - 1) : req[r].log[j] /= c
    ELSE 0

Calls(r, op) == {i \in 1..Len(req[r].log) : req[r].log[i].op = op}

Terminal == {"Completed", "Aborted", "Failed"}

Cancelled(r) == req[r].cancelAt /= NoInt

\* r holds running processes for a production that has not ended
Producing(r) ==
    /\ Own(r) /= {}
    /\ \/ req[r].pc = "popen_encoder"
       \/ req[r].pc = "generator"
          /\ req[r].stream \in {"NotStarted", "Streaming", "Attached"}

(***************************************************************************)
(* C1.  At most one producer per key: no two requests for the same         *)
(* fingerprint hold a process graph at the same time, that is, a request   *)
(* never starts processes while another production for its fingerprint is  *)
(* under way.                                                              *)
(***************************************************************************)
C1_AtMostOneProducerPerKey ==
    \A r1 \in Requests : \A r2 \in Requests :
        (r1 /= r2 /\ Producing(r1) /\ Producing(r2))
            => req[r1].key /= req[r2].key

(***************************************************************************)
(* C2.  A cancellation that arrives when the bytes yielded are at least    *)
(* 95% of a computed estimate is ignored: no process is killed, the stream *)
(* does not abort, every byte read from then on is yielded, and the stream *)
(* completes only at the end of the process's output.  As stated, for any  *)
(* computed estimate, zero included.                                       *)
(***************************************************************************)
Ignored(r) ==
    /\ Calls(r, "kill") = {}
    /\ \A pid \in Own(r) : procs[pid].kills = 0
    /\ req[r].stream /= "Aborted"
    /\ req[r].stream /= "Failed"
            => Sum(req[r].chunks) = procs[req[r].proc].read
    /\ req[r].stream = "Completed" => procs[req[r].proc].at_eof

C2_AnyEstimateAboveThresholdIgnored ==
    \A r \in Requests :
        (/\ Cancelled(r)
         /\ req[r].estimate /= NoInt
         /\ req[r].cancelAt * 100 >= req[r].estimate * THRESHOLD_PCT)
            => Ignored(r)

(***************************************************************************)
(* C2, amended.  The same for a computed estimate that is not zero.        *)
(***************************************************************************)
C2_AboveThresholdIgnored ==
    \A r \in Requests :
        (/\ Cancelled(r)
         /\ req[r].estimate /= NoInt
         /\ req[r].estimate /= 0
         /\ req[r].cancelAt * 100 >= req[r].estimate * THRESHOLD_PCT)
            => Ignored(r)

\* a stream cancelled above the threshold that yielded chunks afterwards
\* and completed
C2_Witness ==
    \E r \in Requests :
        /\ Cancelled(r)
        /\ req[r].estimate > 0
        /\ req[r].stream = "Completed"
        /\ Sum(req[r].chunks) > req[r].cancelAt

(***************************************************************************)
(* C3.  A cancellation that arrives with no estimate, or with the bytes    *)
(* yielded below 95% of it, aborts: no further chunk is yielded, the       *)
(* decoder (if any) is killed before the main process, and the             *)
(* cancellation is raised to the caller.                                   *)
(***************************************************************************)
C3_BelowThresholdAborts ==
    \A r \in Requests :
        (/\ Cancelled(r)
         /\ \/ req[r].estimate = NoInt
            \/ req[r].cancelAt * 100 < req[r].estimate * THRESHOLD_PCT)
            => /\ req[r].stream = "Aborted"
               /\ Sum(req[r].chunks) = req[r].cancelAt
               /\ At(r, call("kill", req[r].proc)) > 0
               /\ procs[req[r].proc].kills > 0
               /\ req[r].dec_proc /= 0
                    => /\ At(r, call("kill", req[r].dec_proc)) > 0
                       /\ At(r, call("kill", req[r].dec_proc))
                            < At(r, call("kill", req[r].proc))
                       /\ procs[req[r].dec_proc].kills > 0
               /\ At(r, call("raise", 0)) > At(r, call("kill", req[r].proc))

\* a decoder and encoder pair aborted below the threshold of an estimate
C3_Witness ==
    \E r \in Requests :
        /\ req[r].stream = "Aborted"
        /\ req[r].dec_proc /= 0
        /\ req[r].estimate > 0
        /\ req[r].cancelAt > 0

(***************************************************************************)
(* C4.  Whenever a started stream has ended (completed, aborted or         *)
(* failed), every process of its request has its stdout pipe closed and    *)
(* has been waited on exactly once.                                        *)
(***************************************************************************)
C4_CleanupOnEveryExit ==
    \A r \in Requests :
        req[r].stream \in Terminal
            => /\ Own(r) /= {}
               /\ \A pid \in Own(r) :
                    /\ ~procs[pid].stdout_open
                    /\ procs[pid].waits = 1

\* a failed stream of a decoder and encoder pair
C4_Witness ==
    \E r \in Requests :
        /\ req[r].stream = "Failed"
        /\ req[r].dec_proc /= 0
        /\ Cardinality(Own(r)) = 2

(***************************************************************************)
(* C5.  Whenever the stream ends with an error (aborted or failed), every  *)
(* process of its request was killed, then waited on, before the error     *)
(* left the generator.                                                     *)
(***************************************************************************)
C5_KillAndReapBeforeError ==
    \A r \in Requests :
        req[r].stream \in {"Aborted", "Failed"}
            => \A pid \in Own(r) :
                /\ 0 < At(r, call("kill", pid))
                /\ At(r, call("kill", pid)) < At(r, call("wait", pid))
                /\ At(r, call("wait", pid)) < At(r, call("raise", 0))

(***************************************************************************)
(* C6.  When a Popen call fails the request ends in a server error and     *)
(* every process it started is reaped, with no pipe left open.             *)
(***************************************************************************)
C6_SpawnFailureLeavesNothing ==
    \A r \in Requests :
        req[r].outcome = "ServerError"
            => /\ req[r].pc = "done"
               /\ \A pid \in Own(r) :
                    /\ procs[pid].waits > 0
                    /\ ~procs[pid].stdout_open

(***************************************************************************)
(* C7.  Once a production for a fingerprint has completed, every request   *)
(* that arrives later and negotiates the same fingerprint is answered with *)
(* the cached artifact and starts no process.                              *)
(***************************************************************************)
SameFingerprint(a, b) ==
    /\ a.dst_suffix = b.dst_suffix
    /\ a.dst_bitrate = b.dst_bitrate

C7_RepeatRequestsHitCache ==
    [][\A r \in Requests : \A done \in Requests :
        (/\ req[done].stream = "Completed"
         /\ req[r].pc = "idle"
         /\ req'[r].pc /= "idle"
         /\ SameFingerprint(req'[r].n, req[done].n))
            => /\ req'[r].pc = "done"
               /\ req'[r].outcome = "cached"
               /\ req'[r].served = cache_key(track.id, req[done].n.dst_bitrate,
                                             req[done].n.dst_suffix)
               /\ procs' = procs]_vars

\* a request answered from the cache after another one's production
C7_Witness ==
    \E r \in Requests : \E done \in Requests :
        /\ req[done].stream = "Completed"
        /\ req[r].outcome = "cached"
        /\ Own(r) = {}
        /\ SameFingerprint(req[r].n, req[done].n)

(***************************************************************************)
(* C8.  When the negotiated suffix is the source suffix and the negotiated *)
(* bitrate is the source bitrate, the response is the source file itself:  *)
(* no process is started and the transcode cache is neither read nor       *)
(* written.                                                                *)
(***************************************************************************)
Negotiated(r) ==
    /\ req[r].pc /= "idle"
    /\ req[r].outcome /= "UnsupportedParameter"

C8_NoTranscodePassthrough ==
    \A r \in Requests :
        (/\ Negotiated(r)
         /\ req[r].n.dst_suffix = track.suffix
         /\ req[r].n.dst_bitrate = track.bitrate)
            => /\ req[r].pc = "done"
               /\ req[r].outcome = "file"
               /\ req[r].served = path(track)
               /\ Own(r) = {}
               /\ ~req[r].cache_read
               /\ ~req[r].cache_write
               /\ \A e \in cache.producing : e.owner /= r

\* a request for the raw file
C8_Witness ==
    \E r \in Requests :
        /\ req[r].outcome = "file"
        /\ req[r].n.dst_suffix = track.suffix
        /\ req[r].n.dst_bitrate = track.bitrate

(***************************************************************************)
(* C9.  A request with a timeOffset or a size parameter ends with          *)
(* UnsupportedParameter, a request for which no command resolves ends with *)
(* GenericError, and neither has started a process.                        *)
(***************************************************************************)
NoCommand(src_suffix, dst_suffix) ==
    /\ config_get(config, <<"transcoder", src_suffix, dst_suffix>>) = NoTemplate
    /\ config_get(config, <<"transcoder">>) = NoTemplate
    /\ \/ /\ config_get(config, <<"decoder", src_suffix>>) = NoTemplate
          /\ config_get(config, <<"decoder">>) = NoTemplate
       \/ /\ config_get(config, <<"encoder", dst_suffix>>) = NoTemplate
          /\ config_get(config, <<"encoder">>) = NoTemplate

\* the request went past the cache lookup without an artifact
Missed(r) ==
    /\ Negotiated(r)
    /\ req[r].outcome \notin {"file", "cached"}

C9_CheapFailuresSpawnNothing ==
    \A r \in Requests :
        /\ (req[r].pc /= "idle" /\ (req[r].timeOffset \/ req[r].size))
            => /\ req[r].pc = "done"
               /\ req[r].outcome = "UnsupportedParameter"
               /\ req[r].message \in {<<"timeOffset">>, <<"size">>}
               /\ Own(r) = {}
        /\ (Missed(r) /\ NoCommand(req[r].n.src_suffix, req[r].n.dst_suffix))
            => /\ req[r].pc = "done"
               /\ req[r].outcome = "GenericError"
               /\ Own(r) = {}
        /\ req[r].outcome \in {"UnsupportedParameter", "GenericError"}
            => Own(r) = {} /\ req[r].pc = "done"

\* a request with a size parameter alone, rejected
C9_Witness ==
    \E r \in Requests :
        /\ req[r].size
        /\ ~req[r].timeOffset
        /\ req[r].outcome = "UnsupportedParameter"

(***************************************************************************)
(* C10.  The processes started are, first match wins: the transcoder       *)
(* configured for the pair of suffixes, as one process; else the decoder   *)
(* (of the source suffix, else generic) piped into the encoder (of the     *)
(* target suffix, else generic) when both resolve; else the generic        *)
(* transcoder, as one process; else none, and the error names the pair.    *)
(***************************************************************************)
FirstOf(a, b) == IF a /= NoTemplate THEN a ELSE b

Rendered(r, template) ==
    prepare_transcoding_cmdline(template, track, req[r].n.src_suffix,
                                req[r].n.dst_suffix, req[r].n.dst_bitrate)

OneProcess(r, template) ==
    /\ Cardinality(Own(r)) = 1
    /\ req[r].dec_proc = 0
    /\ req[r].proc \in Own(r)
    /\ procs[req[r].proc].argv = Rendered(r, template)
    /\ procs[req[r].proc].stdin = 0

Piped(r, decoder, encoder) ==
    /\ Cardinality(Own(r)) = 2
    /\ Own(r) = {req[r].dec_proc, req[r].proc}
    /\ procs[req[r].dec_proc].argv = Rendered(r, decoder)
    /\ procs[req[r].proc].argv = Rendered(r, encoder)
    /\ procs[req[r].proc].stdin = req[r].dec_proc

C10_GraphSelection ==
    \A r \in Requests :
        Missed(r) =>
            LET src == req[r].n.src_suffix
                dst == req[r].n.dst_suffix
                exact == config_get(config, <<"transcoder", src, dst>>)
                decoder == FirstOf(config_get(config, <<"decoder", src>>),
                                   config_get(config, <<"decoder">>))
                encoder == FirstOf(config_get(config, <<"encoder", dst>>),
                                   config_get(config, <<"encoder">>))
                generic == config_get(config, <<"transcoder">>)
                started == req[r].outcome = "transcoding"
            IN  IF exact /= NoTemplate
                THEN /\ started => OneProcess(r, exact)
                     /\ req[r].outcome /= "GenericError"
                ELSE IF decoder /= NoTemplate /\ encoder /= NoTemplate
                THEN /\ started => Piped(r, decoder, encoder)
                     /\ req[r].outcome /= "GenericError"
                ELSE IF generic /= NoTemplate
                THEN /\ started => OneProcess(r, generic)
                     /\ req[r].outcome /= "GenericError"
                ELSE /\ req[r].outcome = "GenericError"
                     /\ req[r].message = <<"No way to transcode from", src,
                                           "to", dst>>
                     /\ Own(r) = {}

\* a decoder piped into an encoder although a generic transcoder exists
C10_Witness ==
    \E r \in Requests :
        /\ req[r].outcome = "transcoding"
        /\ req[r].dec_proc /= 0
        /\ config_get(config, <<"transcoder">>) /= NoTemplate
        /\ Cardinality(Own(r)) = 2

(***************************************************************************)
(* Vocabulary of the negotiation properties: the request as it was sent.   *)
(***************************************************************************)
HasFormat(p) == p.format /= "None" /\ p.format /= ""

HasPrefFormat(p) == p.prefFormat /= "None"

HasPrefBitrate(p) == p.prefBitrate /= 0

HasMaxBitRate(p) == Len(p.maxBitRate) > 0

\* the target bitrate before maxBitRate is looked at
Uncapped(p, res) ==
    IF HasPrefBitrate(p) /\ p.prefBitrate < res.bitrate THEN p.prefBitrate
    ELSE res.bitrate

\* a nonzero maxBitRate lowers the target bitrate
Lowers(p, res) ==
    /\ HasMaxBitRate(p)
    /\ int(p.maxBitRate) /= 0
    /\ int(p.maxBitRate) < Uncapped(p, res)

(***************************************************************************)
(* C11.  Target suffix precedence: with a request format the target suffix *)
(* is that format, lower-cased ("raw" being the source suffix), whatever   *)
(* the preferred format and maxBitRate; with no request format and a       *)
(* preferred format it is the preferred format; with neither it is the     *)
(* configured default transcode target when a nonzero maxBitRate lowered   *)
(* the target bitrate and a default is configured, and the source suffix   *)
(* otherwise.                                                              *)
(***************************************************************************)
C11_TargetSuffixPrecedence ==
    \A r \in Requests :
        req[r].pc /= "idle" =>
            LET p == req[r].p
                n == req[r].n
                default == config.default_transcode_target
            IN  /\ HasFormat(p) =>
                        n.dst_suffix = IF lower(p.format) = "raw"
                                       THEN track.suffix ELSE lower(p.format)
                /\ (~HasFormat(p) /\ HasPrefFormat(p)) =>
                        n.dst_suffix = p.prefFormat
                /\ (~HasFormat(p) /\ ~HasPrefFormat(p)) =>
                        n.dst_suffix = IF Lowers(p, track) /\ default /= "None"
                                       THEN default ELSE track.suffix

\* 320 kbps mp3, no format, no preferences, maxBitRate=128, default ogg
C11_Witness ==
    \E r \in Requests :
        /\ req[r].pc /= "idle"
        /\ track.suffix = "mp3"
        /\ track.bitrate = 320
        /\ req[r].p = [NoParams EXCEPT !.maxBitRate = Str(128),
                                       !.estimateContentLength = "true"]
        /\ config.default_transcode_target = "ogg"
        /\ req[r].n.dst_bitrate = 128
        /\ req[r].n.dst_suffix = "ogg"

(***************************************************************************)
(* C12.  The target bitrate only goes down: it is the least of the source  *)
(* bitrate, the preferred bitrate when there is one, and maxBitRate when   *)
(* it is supplied and not zero; it never exceeds the source bitrate, and   *)
(* maxBitRate=0 leaves it at the least of the source and preferred         *)
(* bitrates.                                                               *)
(***************************************************************************)
Min(S) == CHOOSE x \in S : \A y \in S : x <= y

Candidates(p, res) ==
    {res.bitrate}
        \cup (IF HasPrefBitrate(p) THEN {p.prefBitrate} ELSE {})
        \cup (IF HasMaxBitRate(p) /\ int(p.maxBitRate) /= 0
              THEN {int(p.maxBitRate)} ELSE {})

C12_BitrateOnlyGoesDown ==
    \A r \in Requests :
        req[r].pc /= "idle" =>
            LET p == req[r].p
                n == req[r].n
            IN  /\ n.dst_bitrate = Min(Candidates(p, track))
                /\ n.dst_bitrate <= track.bitrate
                /\ (HasMaxBitRate(p) /\ int(p.maxBitRate) = 0) =>
                        n.dst_bitrate =
                            Min({track.bitrate}
                                    \cup (IF HasPrefBitrate(p)
                                          THEN {p.prefBitrate} ELSE {}))

\* a maxBitRate below a preferred bitrate that is below the source bitrate
C12_Witness ==
    \E r \in Requests :
        /\ req[r].pc /= "idle"
        /\ track.bitrate = 320
        /\ req[r].p.prefBitrate = 128
        /\ req[r].p.maxBitRate = Str(64)
        /\ req[r].n.dst_bitrate = 64

(***************************************************************************)
(* C13.  The step in which a request is answered with a response (the      *)
(* source file, a cached artifact or a new production) adds exactly one to *)
(* the track's play count, sets the track's last-played time to the time   *)
(* of the response and the user's last-played track and time to that track *)
(* and time, and changes nothing else of the track; the step in which a    *)
(* request ends in an error (unsupported parameter, no command, spawn      *)
(* failure), and every step that answers no request, leaves the track and  *)
(* the user as they were.                                                  *)
(***************************************************************************)
Responses == {"file", "cached", "transcoding"}

Errors == {"UnsupportedParameter", "GenericError", "ServerError"}

Answered(r) == req[r].outcome = "None" /\ req'[r].outcome /= "None"

C13_BookkeepingFollowsResponses ==
    [][/\ \A r \in Requests :
            /\ (Answered(r) /\ req'[r].outcome \in Responses)
                    => /\ clock' > clock
                       /\ track' = [track EXCEPT
                                !.play_count = track.play_count + 1,
                                !.last_play = clock']
                       /\ user'.last_play = track.id
                       /\ user'.last_play_date = clock'
            /\ (Answered(r) /\ req'[r].outcome \in Errors)
                    => track' = track /\ user' = user
            /\ Answered(r) => req'[r].outcome \in Responses \cup Errors
       /\ (\A r \in Requests : ~Answered(r))
            => track' = track /\ user' = user]_vars

\* a request answered from the cache, counted once
C13_Witness ==
    \E r \in Requests :
        /\ req[r].outcome = "cached"
        /\ track.play_count = 1
        /\ track.last_play = clock
        /\ user = [last_play |-> track.id, last_play_date |-> clock]

(***************************************************************************)
(* C14.  The cache key of a request is the key of its triple (resource id, *)
(* target bitrate, target suffix), whatever else the request holds, and no *)
(* other triple has that key: over the ids, bitrates and suffixes below,   *)
(* two triples have the same key exactly when they are the same triple.    *)
(***************************************************************************)
KeyBitrates == {4, 6, 64, 128} \cup NegotiationBitrates

KeySuffixes == Suffixes \cup {"4.ogg"}

Triples == TrackIds \X KeyBitrates \X KeySuffixes

KeyOf(t) == cache_key(t[1], t[2], t[3])

Keys == [t \in Triples |-> KeyOf(t)]

KeysInjective ==
    \A t1 \in Triples : \A t2 \in Triples : Keys[t1] = Keys[t2] <=> t1 = t2

Fingerprint(r) == <<track.id, req[r].n.dst_bitrate, req[r].n.dst_suffix>>

C14_FingerprintInjective ==
    /\ \A r \in Requests :
            req[r].key /= <<>> =>
                /\ Fingerprint(r) \in Triples
                /\ req[r].key = KeyOf(Fingerprint(r))
                /\ \A t \in Triples :
                        Keys[t] = req[r].key <=> t = Fingerprint(r)
    /\ KeysInjective

\* the key "1-64.ogg", which is "164.ogg" without its first separator, as
\* the key of track 16 at 4 kbps would be
C14_Witness ==
    \E r \in Requests :
        /\ track.id = 1
        /\ req[r].n.dst_bitrate = 64
        /\ req[r].n.dst_suffix = "ogg"
        /\ req[r].key = <<"1", "-", "6", "4", ".", "o", "g", "g">>
        /\ <<16, 4, "ogg">> \in Triples

(***************************************************************************)
(* C15.  No process outlives its request's stream: once a request has been *)
(* answered with a stream, every process it started is eventually waited   *)
(* on, whatever the consumer does: also when the stream is dropped before  *)
(* its first chunk was asked for, and when the cache attaches the request  *)
(* to a production under way and never calls its generator function.       *)
(***************************************************************************)
Reaped(r) == \A pid \in Own(r) : procs[pid].waits > 0

C15_NoProcessOutlivesStream ==
    \A r \in Requests : (req[r].outcome = "transcoding") ~> Reaped(r)

(***************************************************************************)
(* C16.  Output integrity: while a stream runs and when it has completed,  *)
(* with or without a cancellation ignored on the way, the chunks yielded   *)
(* add up to the bytes read from the terminal process, so that none is     *)
(* lost or yielded twice, at the cancellation or elsewhere; every chunk is *)
(* non-empty and at most 8192 bytes; and a completed stream has read the   *)
(* whole output: it ended at the empty read, which only a last, short      *)
(* chunk or a full one precedes.                                           *)
(***************************************************************************)
C16_OutputIntegrity ==
    \A r \in Requests :
        /\ req[r].stream \in {"Streaming", "Completed"}
            => /\ Sum(req[r].chunks) = procs[req[r].proc].read
               /\ \A i \in 1..Len(req[r].chunks) :
                    /\ req[r].chunks[i] > 0
                    /\ req[r].chunks[i] <= READ_SIZE
        /\ req[r].stream = "Completed"
            => /\ procs[req[r].proc].at_eof
               /\ \A i \in 1..(Len(req[r].chunks) - 1) :
                    req[r].chunks[i] = READ_SIZE

\* a stream cancelled after its first full chunk, near the end of an
\* estimate, that went on to yield the rest and completed
C16_Witness ==
    \E r \in Requests :
        /\ req[r].stream = "Completed"
        /\ req[r].cancelAt = READ_SIZE
        /\ Len(req[r].chunks) >= 2
        /\ req[r].chunks[1] = READ_SIZE
        /\ req[r].chunks[Len(req[r].chunks)] < READ_SIZE

(***************************************************************************)
(* C17.  Of the requests answered with a response, those with an estimate  *)
(* are the cache misses (answered with a new production) whose             *)
(* estimateContentLength is exactly "true".  The estimate is then          *)
(* dst_bitrate * 1000 * duration / 8 rounded down and the Content-Length   *)
(* of the response is that estimate.  With no estimate no Content-Length   *)
(* is set from one, and a cancelled stream is aborted with no chunk        *)
(* yielded after the cancellation.                                         *)
(***************************************************************************)
HasEstimate(r) == req[r].estimate /= NoInt

C17_EstimateAndContentLength ==
    \A r \in Requests :
        req[r].outcome \in Responses =>
            LET bits == req[r].n.dst_bitrate * 1000 * track.duration
            IN  /\ HasEstimate(r) <=>
                        /\ req[r].outcome = "transcoding"
                        /\ req[r].estimateContentLength = "true"
                /\ HasEstimate(r) =>
                        /\ 8 * req[r].estimate <= bits
                        /\ bits < 8 * (req[r].estimate + 1)
                        /\ req[r].content_length = req[r].estimate
                /\ ~HasEstimate(r) =>
                        /\ req[r].content_length = NoInt
                        /\ Cancelled(r) =>
                                /\ req[r].stream = "Aborted"
                                /\ Sum(req[r].chunks) = req[r].cancelAt

\* a new production at 64 kbps of a track of one second, estimate asked for
C17_Witness ==
    \E r \in Requests :
        /\ req[r].outcome = "transcoding"
        /\ req[r].estimateContentLength = "true"
        /\ req[r].n.dst_bitrate = 64
        /\ track.duration = 1
        /\ req[r].estimate = 8000
        /\ req[r].content_length = 8000

====
